---- MODULE Spec2Model ----
(***************************************************************************)
(* Model of the Genz-Keister construction of src/genzkeister.h:            *)
(* maxminsort, compute_generators, compute_weightfactors, compute_nodes,   *)
(* compute_weights and genz_keister_construction.                          *)
(*                                                                         *)
(* A ball (arb_struct) is a record [mid, rad] with integer midpoint and    *)
(* radius.  The arithmetic of the weight factors is carried out on exact   *)
(* values (balls of radius 0), as rationals <<numerator, denominator>>.    *)
(* A read past the end of the generator list or of the table yields the    *)
(* value junk, a read past the end of Z a value of ZJunk.                  *)
(*                                                                         *)
(* pc says which entry point runs and where it stands.  g, G, S: the roots *)
(* given to maxminsort, the generator list it fills, the list of the       *)
(* first of two sorts.  levels, i, solvable, vecs: compute_generators'     *)
(* levels, loop index, last answer of find_extension and the root vectors  *)
(* it allocated.  generators, A, weight_factors, xi, theta, c: the state   *)
(* of compute_weightfactors; reads, zreads: the indices at which the       *)
(* generator list and Z have been read.  P, K, nodes, Wacc, weights,       *)
(* partitions, it: the state of compute_nodes, compute_weights and         *)
(* genz_keister_construction.                                              *)
(***************************************************************************)
EXTENDS Integers, Sequences, FiniteSets

VARIABLES pc, g, G, S, levels, i, solvable, vecs,
          generators, junk, A, weight_factors, xi, theta, c, reads,
          P, K, nodes, Wacc, weights, partitions, it, zreads

extension_vars == <<g, G, S, levels, i, solvable, vecs>>

table_vars == <<generators, junk, A, weight_factors, xi, theta, c, reads>>

grid_vars == <<P, K, nodes, Wacc, weights, partitions, it, zreads>>

vars == <<pc, extension_vars, table_vars, grid_vars>>

(* ------------------------------ bounds --------------------------------- *)
MaxRoots == 3
MaxMid == 2
MaxRad == 1
MaxLevels == 2
MaxLevel == 3
MaxN == 3
MaxGen == 2
MaxD == 3
MaxPart == 2
MaxK == 2

(* ------------------------------ balls ---------------------------------- *)
Ball(m, r) == [mid |-> m, rad |-> r]

Balls == {Ball(m, r) : m \in -1 .. MaxMid, r \in 0 .. MaxRad}

SeqsUpTo(X, n) == UNION {[1 .. k -> X] : k \in 0 .. n}

\* arb_is_nonnegative: the whole ball lies in [0, oo)
arb_is_nonnegative(x) == x.mid - x.rad >= 0

arf_cmp(a, b) == IF a < b THEN -1 ELSE IF a > b THEN 1 ELSE 0

(* ---------------------------- maxminsort ------------------------------- *)
\* lines 35-40: the roots copied into the work list t
RECURSIVE CopyNonnegative(_, _, _)
CopyNonnegative(t, roots, k) ==
    IF k > Len(roots) THEN t
    ELSE CopyNonnegative(IF arb_is_nonnegative(roots[k]) THEN Append(t, roots[k]) ELSE t,
                         roots, k + 1)

\* lines 44-56: one scan of t; I is the position selected so far
RECURSIVE Scan(_, _, _, _)
Scan(t, largest, I, pos) ==
    IF pos > Len(t) THEN I
    ELSE LET cmp == arf_cmp(t[I].mid, t[pos].mid)
             J == IF largest
                  THEN (IF cmp <= 0 THEN pos ELSE I)
                  ELSE (IF cmp >= 0 THEN pos ELSE I)
         IN  Scan(t, largest, J, pos + 1)

\* t.erase(I)
Erase(t, I) == SubSeq(t, 1, I - 1) \o SubSeq(t, I + 1, Len(t))

\* lines 42-61: the while loop
RECURSIVE SelectLoop(_, _, _)
SelectLoop(gens, t, largest) ==
    IF Len(t) = 0 THEN gens
    ELSE LET I == Scan(t, largest, 1, 1)
         IN  SelectLoop(Append(gens, t[I]), Erase(t, I), ~largest)

maxminsort(gens, roots) ==
    SelectLoop(gens, CopyNonnegative(<<>>, roots, 1), TRUE)

(* ------------------------- maxminsort, called -------------------------- *)
\* a caller sorts the roots `roots` into an empty generator list
Call_maxminsort ==
    /\ pc = "idle"
    /\ \E roots \in SeqsUpTo(Balls, MaxRoots) :
          /\ g' = roots
          /\ G' = maxminsort(<<>>, roots)
    /\ pc' = "sorted"
    /\ UNCHANGED <<S, levels, i, solvable, vecs, table_vars, grid_vars>>

\* the caller sorts the produced list again
Call_maxminsort_again ==
    /\ pc = "sorted"
    /\ S' = G
    /\ G' = maxminsort(<<>>, G)
    /\ pc' = "resorted"
    /\ UNCHANGED <<g, levels, i, solvable, vecs, table_vars, grid_vars>>

(* -------------------------- compute_generators ------------------------- *)
\* The roots of a polynomial of degree deg that is even or odd, in increasing
\* order: mirror pairs -m, m and, for odd degree, a root at 0, each enclosed
\* in a ball.
RootVectors(deg) ==
    LET h == deg \div 2
        odd == deg % 2
        Sorted == {q \in [1 .. h -> 1 .. MaxMid] : \A j \in 1 .. h - 1 : q[j] < q[j + 1]}
    IN  {[j \in 1 .. deg |->
            IF j <= h THEN Ball(-q[h + 1 - j], r)
            ELSE IF j = h + 1 /\ odd = 1 THEN Ball(0, r0)
            ELSE Ball(q[j - h - odd], r)] :
         q \in Sorted, r \in 0 .. MaxRad, r0 \in 0 .. MaxRad}

\* levels[0]; a read of an empty vector yields any value
LevelZero(lv) == IF Len(lv) > 0 THEN {lv[1]} ELSE 1 .. MaxLevel

\* lines 72-85
CG_Start ==
    /\ pc = "idle"
    /\ \E lv \in SeqsUpTo(1 .. MaxLevel, MaxLevels) :
       \E p0 \in LevelZero(lv) :
       \E roots \in RootVectors(p0) :
          /\ levels' = lv
          /\ vecs' = <<roots>>
          /\ G' = maxminsort(<<>>, roots)
    /\ i' = 1
    /\ solvable' = TRUE
    /\ pc' = "cg_loop"
    /\ UNCHANGED <<g, S, table_vars, grid_vars>>

\* lines 88-103: find_extension succeeds
CG_Extend ==
    /\ pc = "cg_loop"
    /\ i < Len(levels)
    /\ \E roots \in RootVectors(levels[i + 1]) :
          /\ vecs' = Append(vecs, roots)
          /\ G' = maxminsort(G, roots)
    /\ i' = i + 1
    /\ solvable' = TRUE
    /\ UNCHANGED <<pc, g, S, levels, table_vars, grid_vars>>

\* CG_Break with `continue` in place of `break`
CG_Break_continue ==
    /\ pc = "cg_loop"
    /\ i < Len(levels)
    /\ solvable' = FALSE
    /\ i' = i + 1
    /\ UNCHANGED <<pc, g, G, S, levels, vecs, table_vars, grid_vars>>

\* lines 89-92: find_extension reports no solvable extension
CG_Break ==
    /\ pc = "cg_loop"
    /\ i < Len(levels)
    /\ solvable' = FALSE
    /\ pc' = "cg_done"
    /\ UNCHANGED <<g, G, S, levels, i, vecs, table_vars, grid_vars>>

\* lines 88, 106-109: the loop condition fails
CG_Return ==
    /\ pc = "cg_loop"
    /\ ~(i < Len(levels))
    /\ pc' = "cg_done"
    /\ UNCHANGED <<g, G, S, levels, i, solvable, vecs, table_vars, grid_vars>>

(* ----------------------------- rationals ------------------------------- *)
\* An exact value is a pair <<numerator, denominator>> in lowest terms with a
\* positive denominator; NaN is the indeterminate result of a division by 0.
NaN == <<0, 0>>

Abs(x) == IF x < 0 THEN -x ELSE x

RECURSIVE GCD(_, _)
GCD(a, b) == IF b = 0 THEN a ELSE GCD(b, a % b)

Rat(n, d) ==
    IF d = 0 THEN NaN
    ELSE LET k == GCD(Abs(n), Abs(d))
             sg == IF d < 0 THEN -1 ELSE 1
         IN  <<sg * (n \div k), sg * (d \div k)>>

IsNaN(p) == p[2] = 0

arb_mul(p, q) == IF IsNaN(p) \/ IsNaN(q) THEN NaN ELSE Rat(p[1] * q[1], p[2] * q[2])

arb_add(p, q) ==
    IF IsNaN(p) \/ IsNaN(q) THEN NaN
    ELSE LET k == GCD(p[2], q[2])
         IN  Rat(p[1] * (q[2] \div k) + q[1] * (p[2] \div k), p[2] * (q[2] \div k))

arb_div(p, q) == IF IsNaN(p) \/ IsNaN(q) THEN NaN ELSE Rat(p[1] * q[2], p[2] * q[1])

arb_div_ui(p, m) == arb_div(p, <<m, 1>>)

(* ------------------------ compute_weightfactors ------------------------ *)
\* generators[k] for the 0-based index k; past the end, what lies there
GenAt(k) == IF k < Len(generators) THEN generators[k + 1] ELSE junk

\* lines 127-136: the value of I when iteration k of the moment loop begins
RECURSIVE MomentI(_)
MomentI(k) ==
    IF k = 0 THEN 1
    ELSE IF (k - 1) % 2 = 0 THEN MomentI(k - 1) * k ELSE MomentI(k - 1)

\* M[0][k]
Moment(k) == IF k % 2 = 0 THEN MomentI(k) ELSE 0

\* lines 160-164: poly * (x^2 - gen^2); poly[d + 1] is the coefficient of x^d
PolyMulTerm(poly, gen) ==
    [d \in 1 .. Len(poly) + 2 |->
        (IF d > 2 THEN poly[d - 2] ELSE 0)
        - (IF d <= Len(poly) THEN gen * gen * poly[d] ELSE 0)]

\* lines 166-173: the sum of coefficient times moment
RECURSIVE MomentSum(_, _)
MomentSum(poly, d) ==
    IF d = 0 THEN 0 ELSE MomentSum(poly, d - 1) + poly[d] * Moment(d - 1)

\* lines 145-181: the sequence a_0 .. a_n, A[k + 1] = a_k
RECURSIVE Coefficients(_, _, _, _)
Coefficients(gens, poly, acc, k) ==
    IF k > Len(gens) THEN acc
    ELSE LET next == PolyMulTerm(poly, gens[k])
         IN  Coefficients(gens, next, Append(acc, MomentSum(next, Len(next))), k + 1)

\* RunningProduct with the operands of the subtraction exchanged
RunningProduct_reversed(cc, x, th) ==
    IF th # x THEN cc * (GenAt(th) * GenAt(th) - GenAt(x) * GenAt(x)) ELSE cc

\* lines 193-198
RunningProduct(cc, x, th) ==
    IF th # x THEN cc * (GenAt(x) * GenAt(x) - GenAt(th) * GenAt(th)) ELSE cc

GeneratorLists ==
    {gs \in SeqsUpTo(0 .. MaxGen, MaxN) :
        \A j, k \in DOMAIN gs : j # k => gs[j] # gs[k]}

\* what a read past the end of the generator list yields
JunkValues == {0, 1}

\* lines 120-188
Call_compute_weightfactors ==
    /\ pc = "idle"
    /\ \E gs \in GeneratorLists :
          /\ generators' = gs
          /\ A' = Coefficients(gs, <<1>>, <<1>>, 1)
          /\ weight_factors' = [x \in 0 .. Len(gs) |-> [th \in 0 .. Len(gs) |-> <<0, 1>>]]
    /\ junk' \in JunkValues
    /\ xi' = 0
    /\ theta' = 0
    /\ c' = 1
    /\ reads' = {}
    /\ pc' = "wf_loop"
    /\ UNCHANGED <<extension_vars, grid_vars>>

\* lines 192-203: one pass of the inner loop
Weightfactors_Step ==
    /\ pc = "wf_loop"
    /\ xi <= Len(generators)
    /\ LET cc == RunningProduct(c, xi, theta)
       IN  /\ reads' = IF theta # xi THEN reads \cup {theta, xi} ELSE reads
           /\ weight_factors' =
                  IF theta >= xi
                  THEN [weight_factors EXCEPT
                           ![xi][theta] = arb_div(<<A[theta + 1], 1>>, <<cc, 1>>)]
                  ELSE weight_factors
           /\ IF theta < Len(generators)
              THEN /\ theta' = theta + 1
                   /\ c' = cc
                   /\ xi' = xi
              ELSE /\ theta' = 0
                   /\ c' = 1
                   /\ xi' = xi + 1
    /\ UNCHANGED <<pc, generators, junk, A, extension_vars, grid_vars>>

\* lines 190, 206
Weightfactors_Return ==
    /\ pc = "wf_loop"
    /\ ~(xi <= Len(generators))
    /\ pc' = "ready"
    /\ UNCHANGED <<table_vars, extension_vars, grid_vars>>

(* ----------------------------- enumerators ----------------------------- *)
Range(f) == {f[x] : x \in DOMAIN f}

RECURSIVE SetToSeq(_)
SetToSeq(X) ==
    IF X = {} THEN <<>>
    ELSE LET x == CHOOSE y \in X : TRUE IN <<x>> \o SetToSeq(X \ {x})

RECURSIVE sum(_)
sum(p) == IF Len(p) = 0 THEN 0 ELSE p[1] + sum(Tail(p))

\* number of zero entries
nz(p) == Cardinality({d \in DOMAIN p : p[d] = 0})

\* number of nonzero entries
nnz(p) == Cardinality({d \in DOMAIN p : p[d] # 0})

\* the distinct orderings of the multiset p
Orderings(p) ==
    {q \in [DOMAIN p -> Range(p)] :
        \A v \in Range(p) :
            Cardinality({d \in DOMAIN p : q[d] = v}) = Cardinality({d \in DOMAIN p : p[d] = v})}

Permutations(p) == SetToSeq(Orderings(p))

\* the tuples of dim nonnegative integers that sum to n
LatticePoints(dim, n) == SetToSeq({q \in [1 .. dim -> 0 .. n] : sum(q) = n})

NonIncreasing(p) == \A d \in 1 .. Len(p) - 1 : p[d] >= p[d + 1]

\* the partitions of the integer k into dim nonnegative parts
Partitions(dim, k) ==
    SetToSeq({p \in [1 .. dim -> 0 .. k] : NonIncreasing(p) /\ sum(p) = k})

(* ----------------------------- compute_nodes --------------------------- *)
\* SignFlips with 1 << (D-xi-1) in place of 2 << (D-xi-1)
SignFlips_one_shifted(p) == IF nz(p) < Len(p) THEN 2 ^ (Len(p) - nz(p) - 1) ELSE 1

\* line 226: nsf; 2 << s is 2 * 2^s (the model keeps D - xi below the int width)
SignFlips(p) == IF nz(p) < Len(p) THEN 2 * 2 ^ (Len(p) - nz(p) - 1) ELSE 1

\* Coordinate with u advanced on every axis
Coordinate_counts_every_axis(q, v, d) ==
    IF q[d] # 0 /\ (v \div 2 ^ (d - 1)) % 2 = 1 THEN -GenAt(q[d]) ELSE GenAt(q[d])

\* lines 235-248: coordinate d of the node of ordering q and sign pattern v;
\* u counts the axes before d with a nonzero part
Coordinate(q, v, d) ==
    LET u == Cardinality({e \in 1 .. d - 1 : q[e] # 0})
    IN  IF q[d] # 0 /\ (v \div 2 ^ u) % 2 = 1 THEN -GenAt(q[d]) ELSE GenAt(q[d])

\* lines 232-250: the node of ordering q and sign pattern v
Node(q, v) == [d \in 1 .. Len(q) |-> Coordinate(q, v, d)]

\* lines 229-252: the loops over the orderings and, inside, over the sign
\* patterns 0 .. nsf-1; push number j is pattern (j-1) % nsf of ordering
\* (j-1) \div nsf
NodeLoops(perms, nsf) ==
    IF nsf <= 0 THEN <<>>
    ELSE [j \in 1 .. Len(perms) * nsf |->
             Node(perms[(j - 1) \div nsf + 1], (j - 1) % nsf)]

compute_nodes(p) == NodeLoops(Permutations(p), SignFlips(p))

(* ---------------------------- compute_weights -------------------------- *)
\* arb_mat_entry(weight_factors, r, col); outside the matrix, what lies there
TableAt(r, col) ==
    IF r <= Len(generators) /\ col <= Len(generators)
    THEN weight_factors[r][col]
    ELSE <<junk, 1>>

\* lines 282-285
RECURSIVE Term(_, _, _)
Term(p, q, d) ==
    IF d = 0 THEN <<1, 1>>
    ELSE arb_mul(Term(p, q, d - 1), TableAt(p[d], p[d] + q[d]))

\* lines 275-287: W after the loop over the lattice points
RECURSIVE LatticeSum(_, _, _)
LatticeSum(p, U, k) ==
    IF k = 0 THEN <<0, 1>>
    ELSE arb_add(LatticeSum(p, U, k - 1), Term(p, U[k], Len(p)))

\* Divisor with 1 << (k-1) in place of 2 << (k-1)
Divisor_one_shifted(k) == 2 ^ (k - 1)

\* line 291: 2 << (k-1)
Divisor(k) == 2 * 2 ^ (k - 1)

\* lines 288-293
Normalised(W, p) == IF nnz(p) > 0 THEN arb_div_ui(W, Divisor(nnz(p))) ELSE W

AccumulatedSum(p, k) ==
    LET U == LatticePoints(Len(p), k - sum(p)) IN LatticeSum(p, U, Len(U))

compute_weights(p, k) == <<Normalised(AccumulatedSum(p, k), p)>>

PartitionInputs ==
    UNION {{p \in [1 .. dim -> 0 .. MaxPart] : NonIncreasing(p)} : dim \in 1 .. MaxD}

Call_compute_nodes ==
    /\ pc = "ready"
    /\ \E p \in PartitionInputs :
          /\ P' = p
          /\ nodes' = compute_nodes(p)
    /\ pc' = "nodes_done"
    /\ UNCHANGED <<K, Wacc, weights, partitions, it, zreads, table_vars, extension_vars>>

Call_compute_weights ==
    /\ pc = "ready"
    /\ \E p \in PartitionInputs, k \in 0 .. MaxK :
          /\ sum(p) <= k
          /\ P' = p
          /\ K' = k
          /\ Wacc' = AccumulatedSum(p, k)
          /\ weights' = compute_weights(p, k)
    /\ pc' = "weights_done"
    /\ UNCHANGED <<nodes, partitions, it, zreads, table_vars, extension_vars>>

(* ----------------------- genz_keister_construction --------------------- *)
ZLen == 27

\* lines 321-326
Z == <<0, 0,
       1, 0, 0,
       3, 2, 1, 0, 0,
       5, 4, 3, 2, 1, 0, 0, 0,
       8, 7, 6, 5, 4, 3, 2, 1, 0>>

\* what a read past the end of Z yields
ZJunk == {0, 1}

\* Z[part]
ZAt(part, zj) == IF part < ZLen THEN Z[part + 1] ELSE zj

\* lines 333-337
RECURSIVE Defect(_, _, _)
Defect(p, d, zj) ==
    IF d = 0 THEN 0 ELSE Defect(p, d - 1, zj) + p[d] + ZAt(p[d], zj)

\* Admissible with < in place of <=
Admissible_strict(s, k) == s < k

\* line 339
Admissible(s, k) == s <= k

\* lines 343-346: w[0] once per node of p
Repeat(w, n) == [j \in 1 .. n |-> w[1]]

\* the levels and dimensions the construction is called with: the small
\* ones, and in one dimension the first level that has a part beyond Z
ConstructionInputs ==
    {<<k, dim>> : k \in 0 .. MaxK, dim \in 1 .. MaxD} \cup {<<ZLen, 1>>}

\* lines 316-329
GK_Start ==
    /\ pc = "ready"
    /\ \E in \in ConstructionInputs :
          /\ K' = in[1]
          /\ partitions' = Partitions(in[2], in[1])
    /\ it' = 1
    /\ nodes' = <<>>
    /\ weights' = <<>>
    /\ zreads' = {}
    /\ pc' = "gk_loop"
    /\ UNCHANGED <<P, Wacc, table_vars, extension_vars>>

\* lines 330-348: one pass of the loop over the partitions
GK_Step ==
    /\ pc = "gk_loop"
    /\ it <= Len(partitions)
    /\ \E zj \in ZJunk :
          LET p == partitions[it]
              s == Defect(p, Len(p), zj)
              n == compute_nodes(p)
          IN  /\ P' = p
              /\ zreads' = zreads \cup Range(p)
              /\ IF Admissible(s, K)
                 THEN /\ nodes' = nodes \o n
                      /\ weights' = weights \o Repeat(compute_weights(p, K), Len(n))
                 ELSE UNCHANGED <<nodes, weights>>
    /\ it' = it + 1
    /\ UNCHANGED <<pc, K, Wacc, partitions, table_vars, extension_vars>>

\* lines 330, 350
GK_Return ==
    /\ pc = "gk_loop"
    /\ ~(it <= Len(partitions))
    /\ pc' = "gk_done"
    /\ UNCHANGED <<grid_vars, table_vars, extension_vars>>

(* ------------------------------------------------------------------------ *)
Init ==
    /\ pc = "idle"
    /\ g = <<>>
    /\ G = <<>>
    /\ S = <<>>
    /\ levels = <<>>
    /\ i = 0
    /\ solvable = TRUE
    /\ vecs = <<>>
    /\ generators = <<>>
    /\ junk = 0
    /\ A = <<>>
    /\ weight_factors = <<>>
    /\ xi = 0
    /\ theta = 0
    /\ c = 1
    /\ reads = {}
    /\ P = <<>>
    /\ K = 0
    /\ nodes = <<>>
    /\ Wacc = <<0, 1>>
    /\ weights = <<>>
    /\ partitions = <<>>
    /\ it = 1
    /\ zreads = {}

\* the nested extension engine: maxminsort and compute_generators
NextExtension ==
    \/ Call_maxminsort
    \/ Call_maxminsort_again
    \/ CG_Start
    \/ CG_Extend
    \/ CG_Break
    \/ CG_Return

\* the weight factor table and the sparse grid built from it
NextGrid ==
    \/ Call_compute_weightfactors
    \/ Weightfactors_Step
    \/ Weightfactors_Return
    \/ Call_compute_nodes
    \/ Call_compute_weights
    \/ GK_Start
    \/ GK_Step
    \/ GK_Return

SpecExtension == Init /\ [][NextExtension]_vars

SpecGrid == Init /\ [][NextGrid]_vars

(* ------------------------------ claims --------------------------------- *)
\* number of positions of seq that hold b
Count(seq, b) == Cardinality({k \in DOMAIN seq : seq[k] = b})

RECURSIVE KeptRoots(_, _)
\* number of roots, over the first k root vectors, whose ball is nonnegative
KeptRoots(vs, k) ==
    IF k = 0 THEN 0
    ELSE KeptRoots(vs, k - 1)
         + Cardinality({j \in DOMAIN vs[k] : arb_is_nonnegative(vs[k][j])})

\* every root found was enclosed in a ball of radius 0
ExactRoots == \A k \in DOMAIN vecs : \A j \in DOMAIN vecs[k] : vecs[k][j].rad = 0

\* C1 as stated, on the inputs for which levels[0] exists and the roots are
\* exact: the returned list is no longer than levels, and is shorter only
\* when find_extension reported an unsolvable extension.
C1_LengthBoundedByLevels ==
    (pc = "cg_done" /\ Len(levels) > 0 /\ ExactRoots)
        => /\ Len(G) <= Len(levels)
           /\ (Len(G) < Len(levels) => ~solvable)

\* C1 amended: compute_generators has extracted the roots of i levels when it
\* returns; for non-empty levels i is at most levels.size(), and it is smaller
\* exactly when find_extension reported an unsolvable extension.  The list
\* holds one generator per root of those levels whose ball is nonnegative.
C1_ProcessedLevels ==
    pc = "cg_done"
        => /\ Len(vecs) = i
           /\ (Len(levels) > 0 => i <= Len(levels))
           /\ (i < Len(levels) <=> ~solvable)
           /\ Len(G) = KeptRoots(vecs, Len(vecs))

\* an extension failed after generators were extracted, others were requested
C1_Witness ==
    /\ pc = "cg_done"
    /\ ~solvable
    /\ i < Len(levels)
    /\ Len(G) > i

\* C4 as stated: sorting the list a first maxminsort produced gives the same
\* list in the same order.
C4_Idempotent == pc = "resorted" => G = S

\* C9 as stated: maxminsort appends exactly the roots whose midpoint is
\* nonnegative, each exactly once, whatever their radius.
C9_KeepsNonnegativeMidpoints ==
    pc = "sorted"
        => \A b \in Balls : Count(G, b) = IF b.mid >= 0 THEN Count(g, b) ELSE 0

RECURSIVE FactorProduct(_, _, _)
\* the product of (generators[x]^2 - generators[t]^2) over t in 0 .. th, t # x
FactorProduct(x, th, sign) ==
    IF th < 0 THEN 1
    ELSE FactorProduct(x, th - 1, sign)
         * (IF th = x THEN 1
            ELSE sign * (GenAt(x) * GenAt(x) - GenAt(th) * GenAt(th)))

\* C8 as stated, on the entries for which every generator involved exists:
\* W[xi][theta] is a[theta] over the product of generators[t]^2 -
\* generators[xi]^2 for t < theta, t # xi.
C8_ProductExcludesTheta ==
    pc = "ready"
        => \A x, th \in 0 .. Len(generators) - 1 :
              th >= x =>
                 weight_factors[x][th]
                     = arb_div(<<A[th + 1], 1>>, <<FactorProduct(x, th - 1, -1), 1>>)

\* C8 amended: W[xi][theta] is a[theta] over the product of generators[xi]^2 -
\* generators[t]^2 for t <= theta, t # xi, where a read of generators[n]
\* contributes the value found past the end of the list.
C8_ProductIncludesTheta ==
    pc = "ready"
        => \A x, th \in 0 .. Len(generators) :
              th >= x =>
                 weight_factors[x][th]
                     = arb_div(<<A[th + 1], 1>>, <<FactorProduct(x, th, 1), 1>>)

\* a finished table with an entry off the diagonal that is neither 0 nor NaN
C8_Witness ==
    /\ pc = "ready"
    /\ \E x, th \in 0 .. Len(generators) - 1 :
          th > x /\ weight_factors[x][th][1] # 0 /\ FactorProduct(x, th, 1) < 0

\* C10 as stated: every read of the generator list uses an index in 0 .. n-1.
C10_ReadsInRange == reads \subseteq 0 .. Len(generators) - 1

NoDuplicates(seq) == \A j, k \in DOMAIN seq : j # k => seq[j] # seq[k]

\* the points whose coordinates are, up to sign, the generators of an
\* ordering of p
FullySymmetricSet(p) ==
    LET vals == UNION {{GenAt(p[d]), -GenAt(p[d])} : d \in DOMAIN p}
    IN  {x \in [DOMAIN p -> vals] :
            \E q \in Orderings(p) : \A d \in DOMAIN p : Abs(x[d]) = GenAt(q[d])}

\* generators[0] = 0, the others positive and pairwise distinct, and every
\* part of P the index of a generator
C2_Precondition ==
    /\ Len(generators) > 0
    /\ generators[1] = 0
    /\ \A j \in 2 .. Len(generators) : generators[j] > 0
    /\ \A j, k \in DOMAIN generators : j # k => generators[j] # generators[k]
    /\ \A d \in DOMAIN P : P[d] < Len(generators)

\* C2: under the precondition compute_nodes returns every point of the fully
\* symmetric set of P exactly once and nothing else; 4 nodes for P = (1,0) and
\* the origin alone for an all-zero P.
C2_FullySymmetric ==
    (pc = "nodes_done" /\ C2_Precondition)
        => /\ NoDuplicates(nodes)
           /\ Range(nodes) = FullySymmetricSet(P)
           /\ (P = <<1, 0>> =>
                  /\ Len(nodes) = 4
                  /\ Range(nodes) = {<<GenAt(1), 0>>, <<-GenAt(1), 0>>,
                                     <<0, GenAt(1)>>, <<0, -GenAt(1)>>})
           /\ (nz(P) = Len(P) => nodes = <<[d \in DOMAIN P |-> 0]>>)

\* the nodes of P = (1,0) for generators 0, g, ... have been computed
C2_Witness ==
    /\ pc = "nodes_done"
    /\ C2_Precondition
    /\ P = <<1, 0>>
    /\ Len(nodes) = 4

\* C3 as stated, for a non-empty generator list: for K = 0 the construction
\* returns one node, the origin, and one weight, the zeroth moment.
C3_OriginForLevelZero ==
    (pc = "gk_done" /\ K = 0 /\ Len(generators) > 0)
        => /\ Len(nodes) = 1
           /\ Len(weights) = 1
           /\ \A d \in DOMAIN nodes[1] : nodes[1][d] = 0
           /\ weights[1] = <<Moment(0), 1>>

\* C3 amended: for K = 0 the construction returns one node, every coordinate
\* of which is generators[0], and one weight, the zeroth moment.
C3_FirstGeneratorForLevelZero ==
    (pc = "gk_done" /\ K = 0)
        => /\ Len(nodes) = 1
           /\ Len(weights) = 1
           /\ Len(nodes[1]) = Len(partitions[1])
           /\ \A d \in DOMAIN nodes[1] : nodes[1][d] = GenAt(0)
           /\ weights[1] = <<Moment(0), 1>>

\* the construction for K = 0 in two dimensions returned, the first generator
\* not being 0
C3_Witness ==
    /\ pc = "gk_done"
    /\ K = 0
    /\ Len(generators) > 1
    /\ generators[1] # 0
    /\ Len(nodes) = 1
    /\ Len(nodes[1]) = 2

\* C5 as stated: the construction reads Z only at the indices 0 .. 26.
C5_ZReadsInRange == zreads \subseteq 0 .. ZLen - 1

\* every part of P is the index of a generator
PartsInRange == \A d \in DOMAIN P : P[d] < Len(generators)

\* C6 as stated, for the partitions whose parts index a generator: nsf is
\* 2^(D-xi-1) for xi < D and 1 for xi = D, and the number of nodes is the
\* number of distinct orderings times nsf.
C6_HalfTheSignFlips ==
    (pc = "nodes_done" /\ PartsInRange)
        => LET nsf == IF nz(P) < Len(P) THEN 2 ^ (Len(P) - nz(P) - 1) ELSE 1
           IN  /\ SignFlips(P) = nsf
               /\ Len(nodes) = Cardinality(Orderings(P)) * nsf

\* C6 amended: nsf is 2^(D-xi) for xi < D and 1 for xi = D, and the number of
\* nodes is the number of distinct orderings times nsf.
C6_AllTheSignFlips ==
    pc = "nodes_done"
        => LET nsf == IF nz(P) < Len(P) THEN 2 ^ (Len(P) - nz(P)) ELSE 1
           IN  /\ SignFlips(P) = nsf
               /\ Len(nodes) = Cardinality(Orderings(P)) * nsf

\* the nodes of a partition with a zero and two different nonzero parts
C6_Witness ==
    /\ pc = "nodes_done"
    /\ Len(P) > nz(P)
    /\ Cardinality(Orderings(P)) > 1
    /\ Len(nodes) > 2

\* C7 as stated, for the levels below the number of generators: the weight is
\* the accumulated sum over 2^(k-1) for k > 0 nonzero parts, and the
\* accumulated sum for k = 0.
C7_DividedByHalf ==
    (pc = "weights_done" /\ K < Len(generators))
        => LET k == nnz(P)
           IN  IF k > 0 THEN arb_mul(weights[1], <<2 ^ (k - 1), 1>>) = Wacc
               ELSE weights[1] = Wacc

\* C7 amended: the weight is the accumulated sum over 2^k for k > 0 nonzero
\* parts, and the accumulated sum for k = 0.
C7_DividedByAll ==
    pc = "weights_done"
        => LET k == nnz(P)
           IN  /\ Len(weights) = 1
               /\ IF k > 0 THEN arb_mul(weights[1], <<2 ^ k, 1>>) = Wacc
                  ELSE weights[1] = Wacc

\* a weight of a partition with two nonzero parts whose sum is neither 0 nor NaN
C7_Witness ==
    /\ pc = "weights_done"
    /\ nnz(P) = 2
    /\ Wacc[1] # 0
    /\ weights[1][1] # 0

====
